---- MODULE Spec2Model ----
(***************************************************************************)
(* OptimizedMCPClient (src/src/demo_mcp_app/openai_mcp_demo.py): the       *)
(* connect() context manager, query with its retry loop, batch_query and   *)
(* the conversation-history bookkeeping.                                   *)
(*                                                                         *)
(* The client's five fields are the variables connected, server, agent,    *)
(* conversation_history and last_response_id.  Every coroutine of the      *)
(* client is cut at its await points (Runner.run, asyncio.sleep,           *)
(* server.connect, server.cleanup): one action is the code that runs       *)
(* between two suspensions.  task[t] is the coroutine stack of caller t:   *)
(* where it is suspended, the arguments and locals of the call in          *)
(* progress, and a record of what the call did (the calls it made on the   *)
(* runner, the delays it slept, what it returned or raised).               *)
(*                                                                         *)
(* The model is of the build in which the agents package is importable     *)
(* (AGENTS_AVAILABLE = True, lines 24-27): the branch in which Runner.run, *)
(* server.connect and server.cleanup exist.  Runner.run answers with a     *)
(* response text and a response id (a string), or raises.                  *)
(***************************************************************************)
EXTENDS Integers, Sequences, FiniteSets, TLC

\* ------------------------------------------------------------- bounds
NTasks == 2         \* callers sharing the one client
MaxTries == 3       \* largest max_retries a caller passes to query
MaxHistory == 2     \* queries are started while the history is shorter
MaxBatch == 2       \* longest question list given to batch_query
MaxServers == 2     \* server objects alive at once
MaxDepth == 2       \* connect() blocks one caller nests
MaxOverlapTries == 2   \* largest max_retries of queries that overlap

\* --------------------------------------------------- program constants
DefaultMaxRetries == 3   \* query(..., max_retries: int = 3, ...)
RetryDelay == 1          \* await asyncio.sleep(1)
NoServer == 0            \* None, for _server and _agent
CoveragePercentage == 85         \* "coverage_percentage": 85.0
BranchCoveragePercentage == 75   \* "branch_coverage_percentage": 75.0
ParallelDuration == 45           \* "test_duration": 45.0
SequentialDuration == 120        \* "test_duration": 120.0

None == "None"
Tasks == 1..NTasks
Main == 1
Questions == {"q1", "q2"}

\* What Runner.run returns: result.final_output_as(str), result.last_response_id.
RunResults ==
    { [response |-> "r1", response_id |-> "id1"],
      [response |-> "r2", response_id |-> "id2"] }

\* Exceptions: the type and str(e).
NoExc == [type |-> "None", msg |-> "None"]
NotConnectedError ==
    [type |-> "RuntimeError",
     msg |-> "Client not connected. Use async with client.connect():"]
RunnerErrors ==
    { [type |-> "Exception", msg |-> "m1"],
      [type |-> "TimeoutError", msg |-> "m2"] }
ConnectErrors == { [type |-> "ConnectionError", msg |-> "Connection failed"] }
AgentErrors == { [type |-> "TypeError", msg |-> "agent"] }
BodyErrors == { [type |-> "KeyError", msg |-> "body"] }

VARIABLES
    connected,              \* self._connected
    server,                 \* self._server: NoServer or a server
    agent,                  \* self._agent: NoServer or the server the agent is bound to
    conversation_history,   \* self._conversation_history
    last_response_id,       \* self._last_response_id: None or a response id
    srv_connected,          \* servers whose connect() returned
    srv_cleanups,           \* per server: the calls of its cleanup()
    task,                   \* per caller: its coroutine stack
    succ_log,               \* the queries that succeeded since the last connect or
                            \* clear_conversation_context, in the order they succeeded
    tests,                  \* TestRunner.run_tests: the call in progress
    quality,                \* DaggerMcpServer.code_quality: the call in progress
    build                   \* Builder.build_artifacts: the call in progress

vars == << connected, server, agent, conversation_history, last_response_id,
           srv_connected, srv_cleanups, task, succ_log, tests, quality,
           build >>

\* The demo application's variables.
demo_app == << connected, server, agent, conversation_history,
               last_response_id, srv_connected, srv_cleanups, task, succ_log >>

\* The state of the pipeline stages (src/src/dagger_mcp_server).
pipelines == << tests, quality, build >>

client == << connected, server, agent, conversation_history, last_response_id >>

\* ------------------------------------------------------------ records
NoOutcome == [kind |-> "none", value |-> None, exc |-> NoExc]
Returned(v) == [kind |-> "return", value |-> v, exc |-> NoExc]
Raised(e) == [kind |-> "raise", value |-> None, exc |-> e]

\* How a connect() block ended: "entered" (the body is executing), "exited"
\* (the body ended, with exc in flight or none) or "failed" (no body: the
\* establishing raised exc); srv is the server the block established.
NoConn == [kind |-> "none", exc |-> NoExc, srv |-> NoServer, warned |-> FALSE]

\* The calls a query makes, in order.
RunEv(prev, ag, conn) ==
    [ev |-> "run", prev |-> prev, agent |-> ag, conn |-> conn,
     exc |-> NoExc, response |-> None, response_id |-> None, secs |-> 0]
OkEv(res) ==
    [ev |-> "ok", prev |-> None, agent |-> NoServer, conn |-> FALSE,
     exc |-> NoExc, response |-> res.response, response_id |-> res.response_id,
     secs |-> 0]
FailEv(e) ==
    [ev |-> "fail", prev |-> None, agent |-> NoServer, conn |-> FALSE,
     exc |-> e, response |-> None, response_id |-> None, secs |-> 0]
SleepEv(s) ==
    [ev |-> "sleep", prev |-> None, agent |-> NoServer, conn |-> FALSE,
     exc |-> NoExc, response |-> None, response_id |-> None, secs |-> s]

\* A list in the hands of a caller: its items, and whether it is the very
\* object self._conversation_history refers to.
NoList == [alias |-> FALSE, items |-> <<>>]

IdleFrame ==
    [pc |-> "idle",           \* idle, run, sleep, connecting, cleaning
     op |-> "none",           \* the operation last called
     question |-> None, max_retries |-> 0, ctx |-> FALSE, attempt |-> 0,
     hist0 |-> <<>>, last0 |-> None,   \* the history and id when query was called
     conn0 |-> FALSE,         \* _connected when query was called
     depth0 |-> 0,            \* the blocks of the caller when connect() was called
     trace |-> <<>>,          \* runner calls and delays of the query
     outcome |-> NoOutcome,   \* what the operation returned or raised
     in_batch |-> FALSE, questions |-> <<>>, i |-> 0,
     results |-> <<>>,        \* batch_query's results dict
     processed |-> <<>>,      \* the questions batch_query has finished, in order
     blocks |-> <<>>,         \* the connect() blocks whose body is executing
     srv |-> NoServer,        \* the server _establish_connection created
     mode |-> "none",         \* cleaning: on "exit" of a block or on a "fail"ed establish
     body_exc |-> NoExc,      \* the exception in flight through connect()
     conn |-> NoConn,         \* how the last connect() block ended
     returned |-> NoList]     \* the list get_conversation_history returned

\* A new call: the record of the previous one is dropped.
Fresh(fr, op) == [IdleFrame EXCEPT !.blocks = fr.blocks, !.op = op]

\* --------------------------------------------------------------- query
\* Mutant: the context is used whatever use_conversation_context says.
PreviousResponseId_IgnoresFlag(ctx, last) == last

\* previous_response_id = self._last_response_id if use_conversation_context else None
PreviousResponseId(ctx, last) == IF ctx THEN last ELSE None

\* Mutant: query has no connection check.
NotConnected_NoCheck(conn, ag) == FALSE

\* if not self._connected or not self._agent
NotConnected(conn, ag) == ~conn \/ ag = NoServer

\* One pass of the loop body up to `await Runner.run(self._agent, question,
\* previous_response_id=...)`.
InvokeRunner(fr, last, ag, conn) ==
    [fr EXCEPT !.pc = "run",
               !.trace = Append(@, RunEv(PreviousResponseId(fr.ctx, last), ag, conn))]

\* query() from its call to its first suspension, or to its end.
QueryBegin(fr, q, mr, ctx, hist, last, ag, conn) ==
    LET f0 == [fr EXCEPT !.question = q, !.max_retries = mr, !.ctx = ctx,
                         !.attempt = 0, !.hist0 = hist, !.last0 = last,
                         !.conn0 = conn,
                         !.trace = <<>>, !.outcome = NoOutcome]
    IN  IF NotConnected(conn, ag)
        THEN [f0 EXCEPT !.pc = "idle", !.outcome = Raised(NotConnectedError)]
        ELSE IF mr <= 0
        THEN [f0 EXCEPT !.pc = "idle", !.outcome = Returned(None)]  \* range() is empty
        ELSE InvokeRunner(f0, last, ag, conn)

\* The record query appends on success.
HistoryRecord(q, res) ==
    [question |-> q, response |-> res.response, response_id |-> res.response_id]

\* Mutant: the record is put at the front of the history.
HistoryAfterSuccess_Prepend(hist, q, res) == << HistoryRecord(q, res) >> \o hist

\* Mutant: the history the query was called with is lost.
HistoryAfterSuccess_Overwrite(hist, q, res) == << HistoryRecord(q, res) >>

\* self._conversation_history.append({...})
HistoryAfterSuccess(hist, q, res) == Append(hist, HistoryRecord(q, res))

\* Mutant: the id of the first success is kept.
LastIdAfterSuccess_KeepsFirst(last, res) ==
    IF last = None THEN res.response_id ELSE last

\* self._last_response_id = response_id
LastIdAfterSuccess(last, res) == res.response_id

\* Runner.run returned: `return response`.
QuerySuccess(fr, res) ==
    [fr EXCEPT !.pc = "idle", !.trace = Append(@, OkEv(res)),
               !.outcome = Returned(res.response)]

\* Mutant: the loop gives up one attempt late (attempt == max_retries).
QueryFailure_OneMore(fr, e) ==
    IF fr.attempt = fr.max_retries
    THEN [fr EXCEPT !.pc = "idle", !.trace = Append(@, FailEv(e)),
                    !.outcome = Raised(e)]
    ELSE [fr EXCEPT !.pc = "sleep",
                    !.trace = Append(@, FailEv(e)) \o << SleepEv(RetryDelay) >>]

\* Mutant: the last failure is raised as a new RuntimeError.
QueryFailure_Wrapped(fr, e) ==
    IF fr.attempt = fr.max_retries - 1
    THEN [fr EXCEPT !.pc = "idle", !.trace = Append(@, FailEv(e)),
                    !.outcome = Raised([type |-> "RuntimeError",
                                        msg |-> "Query failed"])]
    ELSE [fr EXCEPT !.pc = "sleep",
                    !.trace = Append(@, FailEv(e)) \o << SleepEv(RetryDelay) >>]

\* Mutant: the delay grows with the attempt (linear backoff).
QueryFailure_Backoff(fr, e) ==
    IF fr.attempt = fr.max_retries - 1
    THEN [fr EXCEPT !.pc = "idle", !.trace = Append(@, FailEv(e)),
                    !.outcome = Raised(e)]
    ELSE [fr EXCEPT !.pc = "sleep",
                    !.trace = Append(@, FailEv(e))
                              \o << SleepEv(RetryDelay * (fr.attempt + 1)) >>]

\* Runner.run raised e: the except clause.
QueryFailure(fr, e) ==
    IF fr.attempt = fr.max_retries - 1
    THEN [fr EXCEPT !.pc = "idle", !.trace = Append(@, FailEv(e)),
                    !.outcome = Raised(e)]
    ELSE [fr EXCEPT !.pc = "sleep",
                    !.trace = Append(@, FailEv(e)) \o << SleepEv(RetryDelay) >>]

\* asyncio.sleep returned: the next pass of the loop.
QueryRetry(fr, last, ag, conn) ==
    InvokeRunner([fr EXCEPT !.attempt = @ + 1], last, ag, conn)

\* --------------------------------------------------------- batch_query
\* f"Error: {e}"
ErrorText(e) == "Error: " \o e.msg

\* Mutant: a failed question is stored as str(e), without the 'Error: ' prefix.
BatchRecord_NoPrefix(fr) ==
    LET v == IF fr.outcome.kind = "return" THEN fr.outcome.value
             ELSE fr.outcome.exc.msg
    IN  [fr EXCEPT !.results = (fr.question :> v) @@ @,
                   !.processed = Append(@, [question |-> fr.question,
                                            kind |-> fr.outcome.kind,
                                            value |-> fr.outcome.value,
                                            exc |-> fr.outcome.exc])]

\* The try/except around `await self.query(question, ...)`, once the query ended.
BatchRecord(fr) ==
    LET v == IF fr.outcome.kind = "return" THEN fr.outcome.value
             ELSE ErrorText(fr.outcome.exc)
    IN  [fr EXCEPT !.results = (fr.question :> v) @@ @,
                   !.processed = Append(@, [question |-> fr.question,
                                            kind |-> fr.outcome.kind,
                                            value |-> fr.outcome.value,
                                            exc |-> fr.outcome.exc])]

\* The for loop of batch_query from question i+1 on, until a query suspends
\* or the list ends.
RECURSIVE BatchLoop(_, _, _, _, _)
BatchLoop(fr, hist, last, ag, conn) ==
    IF fr.i >= Len(fr.questions)
    THEN [fr EXCEPT !.pc = "idle", !.in_batch = FALSE,
                    !.outcome = Returned("results"),
                    \* the frame of the last query is gone
                    !.question = None, !.max_retries = 0, !.attempt = 0,
                    !.hist0 = <<>>, !.last0 = None, !.conn0 = FALSE,
                    !.trace = <<>>]
    ELSE LET f1 == QueryBegin([fr EXCEPT !.i = @ + 1], fr.questions[fr.i + 1],
                              DefaultMaxRetries, fr.ctx, hist, last, ag, conn)
         IN  IF f1.pc = "idle"
             THEN BatchLoop(BatchRecord(f1), hist, last, ag, conn)
             ELSE f1

\* A query ended: back in its caller, which is batch_query or the user.
ResumeCaller(fr, hist, last, ag, conn) ==
    IF fr.in_batch /\ fr.pc = "idle"
    THEN BatchLoop(BatchRecord(fr), hist, last, ag, conn)
    ELSE fr

\* ------------------------------------------------------------- actions
\* TestRunner.run_tests before it is called: its arguments, the suites
\* started so far (in the order they were started), the loop index, the
\* results dict, a log of the tasks created and awaited, and what the call
\* returned or raised.
IdleTests ==
    [pc |-> "idle", parallel |-> FALSE, test_filter |-> <<>>,
     coverage_threshold |-> 0, branch_coverage_threshold |-> 0,
     export_artifacts |-> FALSE, suites |-> <<>>, i |-> 0,
     skipped |-> {}, results |-> <<>>, log |-> <<>>, outcome |-> NoOutcome]

\* DaggerMcpServer.code_quality before it is called: the coroutines given to
\* asyncio.gather (in the order of the list), the results dict, the report,
\* and what the call returned or raised.
IdleQuality ==
    [pc |-> "idle", checks |-> <<>>, out_of_order |-> FALSE, results |-> <<>>,
     outcome |-> NoOutcome]

\* Builder.build_artifacts before it is called.
IdleBuild == [pc |-> "idle", environment |-> None, outcome |-> NoOutcome]

Init ==
    /\ tests = IdleTests
    /\ quality = IdleQuality
    /\ build = IdleBuild
    /\ connected = FALSE
    /\ server = NoServer
    /\ agent = NoServer
    /\ conversation_history = <<>>
    /\ last_response_id = None
    /\ srv_connected = {}
    /\ srv_cleanups = [s \in 1..MaxServers |-> 0]
    /\ task = [t \in Tasks |-> IdleFrame]
    /\ succ_log = <<>>

\* A step of caller t, which leaves its coroutine stack as fr; the pipeline
\* stages are another program.
SetTask(t, fr) == task' = [task EXCEPT ![t] = fr] /\ UNCHANGED pipelines

\* Whether the coroutine stack fr holds a reference to server s.
Holds(fr, s) ==
    \/ fr.srv = s
    \/ fr.conn.srv = s
    \/ \E k \in 1..Len(fr.blocks) : fr.blocks[k].srv = s

\* Whether server s is referred to when the client and the callers are as given.
Live(s, srv, ag, tk) == srv = s \/ ag = s \/ \E u \in Tasks : Holds(tk[u], s)

\* The servers after a step: sc and cl for the ones still referred to; an
\* object nothing refers to is gone, and its number is as good as new.
World(sc, cl) ==
    /\ srv_connected' = { s \in sc : Live(s, server', agent', task') }
    /\ srv_cleanups' = [s \in 1..MaxServers |->
                            IF Live(s, server', agent', task') THEN cl[s] ELSE 0]

KeepWorld == World(srv_connected, srv_cleanups)

\* await client.query(question, max_retries, use_conversation_context)
Query(t, q, mr, ctx) ==
    /\ task[t].pc = "idle"
    /\ Len(conversation_history) < MaxHistory
    /\ SetTask(t, QueryBegin(Fresh(task[t], "query"), q, mr, ctx,
                             conversation_history, last_response_id, agent, connected))
    /\ UNCHANGED << client, succ_log >>
    /\ KeepWorld

\* Runner.run returns res to the query of t.
RunnerReturns(t, res) ==
    /\ task[t].pc = "run"
    /\ conversation_history' =
           HistoryAfterSuccess(conversation_history, task[t].question, res)
    /\ last_response_id' = LastIdAfterSuccess(last_response_id, res)
    /\ SetTask(t, ResumeCaller(QuerySuccess(task[t], res), conversation_history',
                               last_response_id', agent, connected))
    /\ succ_log' = Append(succ_log, [question |-> task[t].question,
                                     response |-> res.response,
                                     response_id |-> res.response_id])
    /\ UNCHANGED << connected, server, agent >>
    /\ KeepWorld

\* Runner.run raises e in the query of t.
RunnerRaises(t, e) ==
    /\ task[t].pc = "run"
    /\ SetTask(t, ResumeCaller(QueryFailure(task[t], e), conversation_history,
                               last_response_id, agent, connected))
    /\ UNCHANGED << client, succ_log >>
    /\ KeepWorld

\* The delay of the query of t is over.
SleepDone(t) ==
    /\ task[t].pc = "sleep"
    /\ SetTask(t, QueryRetry(task[t], last_response_id, agent, connected))
    /\ UNCHANGED << client, succ_log >>
    /\ KeepWorld

\* await client.batch_query(questions, use_conversation_context)
BatchQuery(t, qs, ctx) ==
    /\ task[t].pc = "idle"
    /\ Len(conversation_history) + Len(qs) <= MaxHistory
    /\ SetTask(t, BatchLoop([Fresh(task[t], "batch") EXCEPT
                                 !.in_batch = TRUE, !.questions = qs, !.ctx = ctx],
                            conversation_history, last_response_id, agent, connected))
    /\ UNCHANGED << client, succ_log >>
    /\ KeepWorld

\* Mutant: the history is emptied and the last response id is kept.
ClearConversationContext_KeepsLastId(t) ==
    /\ task[t].pc = "idle"
    /\ conversation_history' = <<>>
    /\ SetTask(t, Fresh(task[t], "clear"))
    /\ succ_log' = <<>>
    /\ UNCHANGED << connected, server, agent, last_response_id >>
    /\ KeepWorld

\* client.clear_conversation_context()
ClearConversationContext(t) ==
    /\ task[t].pc = "idle"
    /\ conversation_history' = <<>>
    /\ last_response_id' = None
    /\ SetTask(t, Fresh(task[t], "clear"))
    /\ succ_log' = <<>>
    /\ UNCHANGED << connected, server, agent >>
    /\ KeepWorld

\* Mutant: the list itself is returned.
ListCopy_SameObject(items) == [alias |-> TRUE, items |-> items]

\* self._conversation_history.copy(): a new list of the same items.
ListCopy(items) == [alias |-> FALSE, items |-> items]

\* client.get_conversation_history()
GetConversationHistory(t) ==
    /\ task[t].pc = "idle"
    /\ SetTask(t, [Fresh(task[t], "get_history") EXCEPT
                       !.returned = ListCopy(conversation_history),
                       !.hist0 = conversation_history,
                       !.last0 = last_response_id])
    /\ UNCHANGED << client, succ_log >>
    /\ KeepWorld

\* What the caller does to the list it got: append, pop, or replace the
\* first element.
ListChanges == {"append", "pop", "replace"}
CallerRecord == [question |-> "x", response |-> "x", response_id |-> "x"]
ChangedList(items, change) ==
    CASE change = "append" -> Append(items, CallerRecord)
      [] change = "pop" -> SubSeq(items, 1, Len(items) - 1)
      [] OTHER -> [items EXCEPT ![1] = CallerRecord]

\* The caller changes the list get_conversation_history returned.  The
\* client's list changes with it when it is the same object.
ChangeReturnedList(t, change) ==
    /\ task[t].pc = "idle"
    /\ task[t].op \in {"get_history", "change"}
    /\ IF change = "append" THEN Len(task[t].returned.items) <= MaxHistory
       ELSE task[t].returned.items # <<>>
    /\ LET items == ChangedList(task[t].returned.items, change)
       IN  /\ conversation_history' =
                  IF task[t].returned.alias THEN items ELSE conversation_history
           /\ SetTask(t, [task[t] EXCEPT !.op = "change", !.returned.items = items])
    /\ UNCHANGED << connected, server, agent, last_response_id, succ_log >>
    /\ KeepWorld

\* ------------------------------------------------------------- connect
\* if self._server and self._connected
CleanupNeeded(srv, conn) == srv # NoServer /\ conn

\* Mutant: the cleanup forgets the conversation history.
ResetState_KeepsHistory ==
    /\ server' = NoServer
    /\ agent' = NoServer
    /\ connected' = FALSE
    /\ UNCHANGED << conversation_history, last_response_id >>

\* The finally clause of _cleanup_connection.
ResetState ==
    /\ server' = NoServer
    /\ agent' = NoServer
    /\ connected' = FALSE
    /\ conversation_history' = <<>>
    /\ last_response_id' = None

\* `yield self`: the body of the block starts.
EnterBody(fr, srv) ==
    [fr EXCEPT !.pc = "idle", !.blocks = Append(@, [srv |-> srv]),
               !.conn = [NoConn EXCEPT !.kind = "entered", !.srv = srv]]

\* connect() is left after its finally clause: the block is over and the
\* exception of the body, if any, goes on to the caller.
LeaveBlock(fr, exc, warned) ==
    [fr EXCEPT !.pc = "idle", !.mode = "none",
               !.blocks = SubSeq(@, 1, Len(@) - 1),
               !.conn = [kind |-> "exited", exc |-> exc,
                         srv |-> fr.blocks[Len(fr.blocks)].srv, warned |-> warned]]

\* Mutant: the except clause does not re-raise, and the body is entered.
FailConnect_Swallows(fr, exc, warned) ==
    [fr EXCEPT !.pc = "idle", !.mode = "none",
               !.blocks = Append(@, [srv |-> fr.srv]),
               !.conn = [NoConn EXCEPT !.kind = "entered", !.srv = fr.srv]]

\* _establish_connection raised exc and connect() passes it on: no body.
FailConnect(fr, exc, warned) ==
    [fr EXCEPT !.pc = "idle", !.mode = "none",
               !.conn = [kind |-> "failed", exc |-> exc, srv |-> fr.srv,
                         warned |-> warned]]

\* `await self._server.cleanup()` is reached: the call is counted, the caller waits.
CallServerCleanup(t, fr, mode, exc, sc) ==
    /\ SetTask(t, [fr EXCEPT !.pc = "cleaning", !.mode = mode, !.body_exc = exc])
    /\ UNCHANGED << client, succ_log >>
    /\ World(sc, [srv_cleanups EXCEPT ![server] = @ + 1])

\* The except clause of _establish_connection (cleanup, raise) and then the
\* finally clause of connect() (cleanup again).
EstablishFailed(t, fr, e, sc) ==
    IF CleanupNeeded(server, connected)
    THEN CallServerCleanup(t, fr, "fail", e, sc)
    ELSE /\ SetTask(t, FailConnect([fr EXCEPT !.body_exc = e], e, FALSE))
         /\ UNCHANGED << client, succ_log >>
         /\ World(sc, srv_cleanups)

\* The numbers free for the object MCPServerStdio(server_params) creates in a
\* connect() of t, which then replaces self._server.
FreeServers(t) ==
    { s \in 1..MaxServers :
          ~Live(s, NoServer, agent, [task EXCEPT ![t] = Fresh(task[t], "connect")]) }

NewServer(t) == CHOOSE s \in FreeServers(t) : \A r \in FreeServers(t) : s <= r

\* Mutant: _establish_connection has no early return, a connected client
\* connects again.
ConnectEnter_AlwaysNew(t) ==
    /\ task[t].pc = "idle"
    /\ Len(task[t].blocks) < MaxDepth
    /\ FreeServers(t) # {}
    /\ server' = NewServer(t)
    /\ SetTask(t, [Fresh(task[t], "connect") EXCEPT
                       !.pc = "connecting", !.srv = NewServer(t),
                       !.depth0 = Len(task[t].blocks)])
    /\ UNCHANGED << connected, agent, conversation_history,
                    last_response_id, succ_log >>
    /\ World(srv_connected \ {NewServer(t)},
             [srv_cleanups EXCEPT ![NewServer(t)] = 0])

\* `async with client.connect():` up to the body, or to `await self._server.connect()`.
ConnectEnter(t) ==
    /\ task[t].pc = "idle"
    /\ Len(task[t].blocks) < MaxDepth
    /\ IF connected
       THEN /\ SetTask(t, EnterBody([Fresh(task[t], "connect") EXCEPT
                                         !.depth0 = Len(task[t].blocks)], NoServer))
            /\ UNCHANGED << client, succ_log >>
            /\ KeepWorld
       ELSE /\ FreeServers(t) # {}
            /\ server' = NewServer(t)
            /\ SetTask(t, [Fresh(task[t], "connect") EXCEPT
                               !.pc = "connecting", !.srv = NewServer(t),
                               !.depth0 = Len(task[t].blocks)])
            /\ UNCHANGED << connected, agent, conversation_history,
                            last_response_id, succ_log >>
            /\ World(srv_connected \ {NewServer(t)},
                     [srv_cleanups EXCEPT ![NewServer(t)] = 0])

\* server.connect() returned and Agent(...) was created.
EstablishSucceeds(t) ==
    /\ task[t].pc = "connecting"
    /\ agent' = server
    /\ connected' = TRUE
    /\ SetTask(t, EnterBody(task[t], task[t].srv))
    /\ succ_log' = <<>>
    /\ UNCHANGED << server, conversation_history, last_response_id >>
    /\ World(srv_connected \cup {task[t].srv}, srv_cleanups)

\* server.connect() raised e.
EstablishFailsAtConnect(t, e) ==
    /\ task[t].pc = "connecting"
    /\ EstablishFailed(t, task[t], e, srv_connected)

\* server.connect() returned and Agent(...) raised e.
EstablishFailsAtAgent(t, e) ==
    /\ task[t].pc = "connecting"
    /\ EstablishFailed(t, task[t], e, srv_connected \cup {task[t].srv})

\* The body of the innermost block of t ends, normally (NoExc) or raising exc:
\* the finally clause of connect().
BlockExit(t, exc) ==
    /\ task[t].pc = "idle"
    /\ task[t].blocks # <<>>
    /\ IF CleanupNeeded(server, connected)
       THEN CallServerCleanup(t, Fresh(task[t], "exit"), "exit", exc,
                              srv_connected)
       ELSE /\ SetTask(t, LeaveBlock([Fresh(task[t], "exit") EXCEPT
                                          !.body_exc = exc], exc, FALSE))
            /\ UNCHANGED << client, succ_log >>
            /\ KeepWorld

\* server.cleanup() returned, or raised an Exception that is logged (warned).
ServerCleanupDone(t, warned) ==
    /\ task[t].pc = "cleaning"
    /\ ResetState
    /\ SetTask(t, IF task[t].mode = "exit"
                  THEN LeaveBlock(task[t], task[t].body_exc, warned)
                  ELSE FailConnect(task[t], task[t].body_exc, warned))
    /\ UNCHANGED succ_log
    /\ KeepWorld

\* What the body of a block may end with: nothing, an exception of its own,
\* or the exception its last call raised.
BodyOutcomes(t) == {NoExc} \cup BodyErrors \cup {task[t].outcome.exc}

QuestionLists == UNION { [1..n -> Questions] : n \in 0..MaxBatch }
\* The steps of a caller that calls query itself.
TaskNext(t) ==
    \/ \E q \in Questions, mr \in 0..MaxTries, ctx \in BOOLEAN : Query(t, q, mr, ctx)
    \/ \E res \in RunResults : RunnerReturns(t, res)
    \/ \E e \in RunnerErrors : RunnerRaises(t, e)
    \/ SleepDone(t)
    \/ ClearConversationContext(t)
    \/ ConnectEnter(t)
    \/ EstablishSucceeds(t)
    \/ \E e \in ConnectErrors : EstablishFailsAtConnect(t, e)
    \/ \E e \in AgentErrors : EstablishFailsAtAgent(t, e)
    \/ \E exc \in BodyOutcomes(t) : BlockExit(t, exc)
    \/ \E warned \in BOOLEAN : ServerCleanupDone(t, warned)

\* One caller: its calls on the client do not overlap.
Next == TaskNext(Main)

Spec == Init /\ [][Next]_vars

\* The steps of a caller that asks its questions through batch_query.
BatchTaskNext(t) ==
    \/ \E qs \in QuestionLists, ctx \in BOOLEAN : BatchQuery(t, qs, ctx)
    \/ \E res \in RunResults : RunnerReturns(t, res)
    \/ \E e \in RunnerErrors : RunnerRaises(t, e)
    \/ SleepDone(t)
    \/ ClearConversationContext(t)
    \/ ConnectEnter(t)
    \/ EstablishSucceeds(t)
    \/ \E e \in ConnectErrors : EstablishFailsAtConnect(t, e)
    \/ \E exc \in BodyOutcomes(t) : BlockExit(t, exc)
    \/ \E warned \in BOOLEAN : ServerCleanupDone(t, warned)

NextBatch == BatchTaskNext(Main)

SpecBatch == Init /\ [][NextBatch]_vars

\* The question caller t asks when the callers' queries overlap.
QuestionOf(t) == IF t = Main THEN "q1" ELSE "q2"

\* The steps of a caller whose query calls overlap with the calls of the
\* other callers (asyncio.gather, asyncio.create_task).
QueryTaskNext(t) ==
    \/ \E mr \in 1..MaxOverlapTries, ctx \in BOOLEAN : Query(t, QuestionOf(t), mr, ctx)
    \/ \E res \in RunResults : RunnerReturns(t, res)
    \/ RunnerRaises(t, [type |-> "Exception", msg |-> "m1"])
    \/ SleepDone(t)

\* Several callers query one client that Main has connected.
NextGather ==
    \/ ConnectEnter(Main)
    \/ EstablishSucceeds(Main)
    \/ \E t \in Tasks : QueryTaskNext(t)

SpecGather == Init /\ [][NextGather]_vars

\* Several callers query the client while Main enters and leaves its
\* connect() block and clears the conversation context.
NextConcurrent ==
    \/ ConnectEnter(Main)
    \/ EstablishSucceeds(Main)
    \/ BlockExit(Main, NoExc)
    \/ \E warned \in BOOLEAN : ServerCleanupDone(Main, warned)
    \/ ClearConversationContext(Main)
    \/ \E t \in Tasks \ {Main} : QueryTaskNext(t)

SpecConcurrent == Init /\ [][NextConcurrent]_vars

\* The steps of a caller that reads the history and changes the list it got.
HistoryTaskNext(t) ==
    \/ \E q \in Questions : Query(t, q, DefaultMaxRetries, TRUE)
    \/ \E res \in RunResults : RunnerReturns(t, res)
    \/ \E e \in RunnerErrors : RunnerRaises(t, e)
    \/ SleepDone(t)
    \/ ClearConversationContext(t)
    \/ ConnectEnter(t)
    \/ EstablishSucceeds(t)
    \/ BlockExit(t, NoExc)
    \/ ServerCleanupDone(t, FALSE)
    \/ GetConversationHistory(t)
    \/ \E change \in ListChanges : ChangeReturnedList(t, change)

NextHistory == HistoryTaskNext(Main)

SpecHistory == Init /\ [][NextHistory]_vars

\* ---------------------------------------------------------------------
\* TestRunner (src/src/dagger_mcp_server/testing.py).  A string the code
\* searches or splits is the sequence of its pieces: the words and the "_"
\* between them.
TestSuites ==
    << [module |-> <<"test", "_", "mcp", "_", "client">>, test_type |-> "unit"],
       [module |-> <<"test", "_", "integration">>, test_type |-> "integration"],
       [module |-> <<"test", "_", "performance">>, test_type |-> "performance"] >>

\* The test_filter arguments: <<>> is None (or '', which the code treats the
\* same), the others are texts that occur in one, in all or in no module name.
TestFilters ==
    { <<>>, <<"integration">>, <<"test", "_">>, <<"mcp", "_", "client">>,
      <<"nomatch">> }

CoverageThresholds == {80, 90}
BranchCoverageThresholds == {70, 80}

\* What `python -m unittest` prints, and the errors of the SDK calls.
SuiteOutputs == { <<"Ran", "OK">>, <<"FAILED">> }
ExecErrors == { [type |-> "ExecError", msg |-> "exit code 1"] }
KeyError(k) == [type |-> "KeyError", msg |-> k]

\* sub in s
Contains(sub, s) ==
    \E k \in 0..(Len(s) - Len(sub)) : SubSeq(s, k + 1, k + Len(sub)) = sub

\* s.split(sep)
RECURSIVE SplitFrom(_, _, _, _)
SplitFrom(s, sep, k, cur) ==
    IF k > Len(s) THEN << cur >>
    ELSE IF s[k] = sep THEN << cur >> \o SplitFrom(s, sep, k + 1, "")
    ELSE SplitFrom(s, sep, k + 1, cur \o s[k])

Split(s, sep) == SplitFrom(s, sep, 1, "")

\* f"{test_type}_tests_passed"
PassedKey(test_type) == test_type \o "_tests_passed"

\* test_suite.split("_")[1]
SequentialTestType(module) == Split(module, "_")[2]

\* What _execute_test_suite returns when stdout() returned out, and when the
\* SDK call raised.
SuitePassed(out) == Contains(<<"OK">>, out)
SuiteReturn(out, test_type) ==
    [success |-> SuitePassed(out), output |-> out, test_type |-> test_type]
SuiteError(e, test_type) ==
    [success |-> FALSE, error |-> e.msg, test_type |-> test_type]

\* Mutant: one passing suite is enough.
AllPassed_Any(results) == \E k \in DOMAIN results : results[k]

\* all(results.values())
AllPassed(results) == \A k \in DOMAIN results : results[k]

\* results[key] = value
DictSet(d, key, value) == (key :> value) @@ d

\* results.update({...}) at the end of _run_parallel_tests and of
\* _run_sequential_tests.
OverallMetrics(results, duration) ==
    [k \in {"success", "coverage_percentage", "branch_coverage_percentage",
            "test_duration"} |->
        CASE k = "success" -> AllPassed(results)
          [] k = "coverage_percentage" -> CoveragePercentage
          [] k = "branch_coverage_percentage" -> BranchCoveragePercentage
          [] OTHER -> duration] @@ results


\* The keys run_tests reads from the results dict, in the order it reads them.
ResultKeys ==
    << "success", "unit_tests_passed", "integration_tests_passed",
       "performance_tests_passed", "coverage_percentage",
       "branch_coverage_percentage", "test_duration" >>

\* return TestResults(success=results["success"], ...): a key that is not in
\* the dict raises KeyError.
MakeTestResults(st) ==
    LET r == st.results
        missing == { k \in 1..Len(ResultKeys) : ResultKeys[k] \notin DOMAIN r }
        first == CHOOSE k \in missing : \A m \in missing : k <= m
    IN  IF missing # {}
        THEN [st EXCEPT !.pc = "done",
                        !.outcome = Raised(KeyError(ResultKeys[first]))]
        ELSE [st EXCEPT !.pc = "done",
                        !.outcome = Returned(
                            [success |-> r["success"],
                             unit_tests_passed |-> r["unit_tests_passed"],
                             integration_tests_passed |->
                                 r["integration_tests_passed"],
                             performance_tests_passed |->
                                 r["performance_tests_passed"],
                             coverage_percentage |-> r["coverage_percentage"],
                             branch_coverage_percentage |->
                                 r["branch_coverage_percentage"],
                             test_duration |-> r["test_duration"],
                             artifacts_exported |-> st.export_artifacts])]

\* The end of _run_parallel_tests and _run_sequential_tests, and run_tests
\* after them: it awaits _export_test_artifacts or returns.
AfterSuites(st, duration) ==
    LET st1 == [st EXCEPT !.results = OverallMetrics(st.results, duration)]
    IN  IF st.export_artifacts THEN [st1 EXCEPT !.pc = "export"]
        ELSE MakeTestResults(st1)

StartSuite(st, module, test_type) ==
    [st EXCEPT !.suites = Append(@, [module |-> module, test_type |-> test_type,
                                     state |-> "running", outcome |-> NoOutcome]),
               !.log = Append(@, [ev |-> "start", test_type |-> test_type])]

\* results[f"{test_type}_tests_passed"] = result["success"], or False when
\* awaiting the suite raised.
RecordSuite(st, k) ==
    LET su == st.suites[k]
        passed == IF su.outcome.kind = "return" THEN su.outcome.value.success
                  ELSE FALSE
    IN  [st EXCEPT !.results = DictSet(@, PassedKey(su.test_type), passed),
                   !.log = Append(@, [ev |-> "record", test_type |-> su.test_type])]

\* The three asyncio.create_task calls of _run_parallel_tests.
CreateTasks(st) ==
    StartSuite(StartSuite(StartSuite(st,
        TestSuites[1].module, TestSuites[1].test_type),
        TestSuites[2].module, TestSuites[2].test_type),
        TestSuites[3].module, TestSuites[3].test_type)

\* for test_type, task in tasks: result = await task ...  The loop runs on
\* over the tasks that are done and is suspended at the first that is not.
RECURSIVE AwaitTasks(_)
AwaitTasks(st) ==
    IF st.i > Len(st.suites) THEN AfterSuites(st, ParallelDuration)
    ELSE IF st.suites[st.i].state = "done"
         THEN AwaitTasks([RecordSuite(st, st.i) EXCEPT !.i = @ + 1])
         ELSE [st EXCEPT !.pc = "gather"]

\* for test_suite in [...]: the suites the filter leaves out are skipped, the
\* loop is suspended in _execute_test_suite of the first that is not.
RECURSIVE SequentialLoop(_)
SequentialLoop(st) ==
    IF st.i > Len(TestSuites) THEN AfterSuites(st, SequentialDuration)
    ELSE LET module == TestSuites[st.i].module
         IN  IF st.test_filter # <<>> /\ ~Contains(st.test_filter, module)
             THEN SequentialLoop([st EXCEPT !.i = @ + 1,
                                            !.skipped = @ \cup {module}])
             ELSE [StartSuite(st, module, SequentialTestType(module))
                      EXCEPT !.pc = "seq"]

\* The suite k has ended with outcome o.  In a task, the task is done and
\* _run_parallel_tests resumes later; called from _run_sequential_tests, the
\* loop goes on.
SuiteEnds(st, k, o) ==
    LET st1 == [st EXCEPT !.suites[k].state = "done", !.suites[k].outcome = o]
    IN  IF st.parallel THEN st1
        ELSE SequentialLoop([RecordSuite(st1, k) EXCEPT !.i = @ + 1])

RunTests(parallel, test_filter, coverage_threshold, branch_coverage_threshold, export_artifacts) ==
    /\ tests.pc = "idle"
    /\ LET st == [IdleTests EXCEPT
                     !.parallel = parallel, !.test_filter = test_filter,
                     !.coverage_threshold = coverage_threshold,
                     !.branch_coverage_threshold = branch_coverage_threshold,
                     !.export_artifacts = export_artifacts, !.i = 1]
       IN  tests' = IF parallel THEN AwaitTasks(CreateTasks(st))
                    ELSE SequentialLoop(st)
    /\ UNCHANGED << demo_app, quality, build >>

\* stdout() of the suite's container returned out.
SuiteReturns(k, out) ==
    /\ tests.pc \in {"gather", "seq"}
    /\ k \in 1..Len(tests.suites)
    /\ tests.suites[k].state = "running"
    /\ tests' = SuiteEnds(tests, k, Returned(SuiteReturn(out, tests.suites[k].test_type)))
    /\ UNCHANGED << demo_app, quality, build >>

\* The SDK call of the suite raised e: _execute_test_suite catches it.
SuiteRaises(k, e) ==
    /\ tests.pc \in {"gather", "seq"}
    /\ k \in 1..Len(tests.suites)
    /\ tests.suites[k].state = "running"
    /\ tests' = SuiteEnds(tests, k, Returned(SuiteError(e, tests.suites[k].test_type)))
    /\ UNCHANGED << demo_app, quality, build >>

\* The task _run_parallel_tests awaits is done.
AwaitResumes ==
    /\ tests.pc = "gather"
    /\ tests.suites[tests.i].state = "done"
    /\ tests' = AwaitTasks(tests)
    /\ UNCHANGED << demo_app, quality, build >>

ExportReturns ==
    /\ tests.pc = "export"
    /\ tests' = MakeTestResults(tests)
    /\ UNCHANGED << demo_app, quality, build >>

\* The SDK call of _export_test_artifacts raised e: nothing catches it.
ExportRaises(e) ==
    /\ tests.pc = "export"
    /\ tests' = [tests EXCEPT !.pc = "done", !.outcome = Raised(e)]
    /\ UNCHANGED << demo_app, quality, build >>

NextTests ==
    \/ \E parallel \in BOOLEAN, f \in TestFilters, ct \in CoverageThresholds,
          bt \in BranchCoverageThresholds, export \in BOOLEAN :
            RunTests(parallel, f, ct, bt, export)
    \/ \E k \in 1..Len(TestSuites), out \in SuiteOutputs : SuiteReturns(k, out)
    \/ \E k \in 1..Len(TestSuites), e \in ExecErrors : SuiteRaises(k, e)
    \/ AwaitResumes
    \/ ExportReturns
    \/ \E e \in ExecErrors : ExportRaises(e)

SpecTests == Init /\ [][NextTests]_vars

\* ---------------------------------------------------------------------
\* DaggerMcpServer.code_quality (src/src/dagger_mcp_server/__init__.py).  A
\* text is the sequence of its pieces, white space included.

\* tasks = [self._run_flake8(container), ...]: the coroutines, in list order.
CheckFunctions ==
    << "flake8", "black", "mypy", "isort", "pylint", "bandit", "safety" >>

\* Mutant: the names are listed in the opposite order to the coroutines.
CheckNames_Reversed ==
    [k \in 1..Len(CheckFunctions) |-> CheckFunctions[Len(CheckFunctions) + 1 - k]]

\* check_names = [...]
CheckNames ==
    << "flake8", "black", "mypy", "isort", "pylint", "bandit", "safety" >>

\* What stdout() of a check returns, the dagger.ExecError of a check that
\* exits non-zero, and the other exceptions of the SDK call.
CheckOutputs == { << " ", "ok", "\n" >> }
CheckExecErrors ==
    { [exit_code |-> 1, stdout |-> <<>>],
      [exit_code |-> 2, stdout |-> << "E501", "\n" >>] }
CheckErrors == { [type |-> "QueryError", msg |-> "engine"] }

WhiteSpace == { " ", "\n" }

\* text.strip()
RECURSIVE Strip(_)
Strip(text) ==
    IF text = <<>> THEN <<>>
    ELSE IF Head(text) \in WhiteSpace THEN Strip(Tail(text))
    ELSE IF text[Len(text)] \in WhiteSpace
         THEN Strip(SubSeq(text, 1, Len(text) - 1))
    ELSE text

\* The "output" of a check that passed.
PassOutput(fn, stdout) ==
    CASE fn = "flake8" -> << "No flake8 issues found" >>
      [] fn = "black" -> << "Code formatting is compliant with Black" >>
      [] fn = "isort" -> << "Import sorting is compliant" >>
      [] OTHER -> Strip(stdout)

\* The "output" of a check whose ExecError has an empty stdout.
DefaultOutput(fn) ==
    CASE fn = "flake8" -> << "Flake8 found issues" >>
      [] fn = "black" -> << "Black formatting issues found" >>
      [] fn = "mypy" -> << "MyPy type checking issues found" >>
      [] fn = "isort" -> << "Import sorting issues found" >>
      [] fn = "pylint" -> << "Pylint analysis completed with issues" >>
      [] fn = "bandit" -> << "Security vulnerabilities found" >>
      [] OTHER -> << "Vulnerable dependencies found" >>

\* The "status" of a check that exited non-zero.
FailStatus(fn) == IF fn = "pylint" THEN "warning" ELSE "fail"

\* What _run_<fn> returns when stdout() returned, and when it raised ExecError.
CheckPassed(fn, stdout) ==
    [status |-> "pass", output |-> PassOutput(fn, stdout), exit_code |-> 0]
CheckExited(fn, e) ==
    [status |-> FailStatus(fn),
     output |-> IF e.stdout # <<>> THEN Strip(e.stdout) ELSE DefaultOutput(fn),
     exit_code |-> e.exit_code]

\* The entry of one element of check_results.
GatheredResult(o) ==
    IF o.kind = "raise"
    THEN [status |-> "error", output |-> << o.exc.msg >>, exit_code |-> 1]
    ELSE o.value

\* for name, result in zip(check_names, check_results): ...
QualityResults(names, checks) ==
    [name \in { names[k] : k \in 1..Len(names) } |->
        GatheredResult(checks[CHOOSE k \in 1..Len(names) : names[k] = name].outcome)]

CountStatus(results, status) ==
    Cardinality({ name \in DOMAIN results : results[name].status = status })

\* Mutant: a warning fails the report.
OverallStatus_WarningsFail(failed, warnings, errors) ==
    IF failed > 0 \/ errors > 0 \/ warnings > 0 THEN "FAILED" ELSE "PASSED"

\* The OVERALL STATUS line of the report.
OverallStatus(failed, warnings, errors) ==
    IF failed > 0 \/ errors > 0 THEN "FAILED"
    ELSE IF warnings > 0 THEN "PASSED WITH WARNINGS"
    ELSE "PASSED"

\* _generate_quality_report: the summary and the overall status of the report.
QualityReport(results) ==
    LET passed == CountStatus(results, "pass")
        failed == CountStatus(results, "fail")
        warnings == CountStatus(results, "warning")
        errors == CountStatus(results, "error")
    IN  [total_checks |-> Cardinality(DOMAIN results),
         passed |-> passed, failed |-> failed, warnings |-> warnings,
         errors |-> errors, overall |-> OverallStatus(failed, warnings, errors)]

\* code_quality is called: the container is described (nothing is run yet)
\* and asyncio.gather starts the seven checks.
CodeQuality ==
    /\ quality.pc = "idle"
    /\ quality' = [IdleQuality EXCEPT
                      !.pc = "gather",
                      !.checks = [k \in 1..Len(CheckFunctions) |->
                                     [fn |-> CheckFunctions[k], state |-> "running",
                                      outcome |-> NoOutcome]]]
    /\ UNCHANGED << demo_app, tests, build >>

\* The coroutine k of the gather has ended with outcome o.
CheckEnds(k, o) ==
    /\ quality.pc = "gather"
    /\ quality.checks[k].state = "running"
    /\ quality' = [quality EXCEPT
                      !.checks[k].state = "done",
                      !.checks[k].outcome = o,
                      !.out_of_order =
                          @ \/ \E j \in 1..(k - 1) :
                                   quality.checks[j].state = "running"]
    /\ UNCHANGED << demo_app, tests, build >>

\* stdout() of check k returned.
CheckReturns(k, stdout) ==
    /\ quality.pc = "gather"
    /\ CheckEnds(k, Returned(CheckPassed(quality.checks[k].fn, stdout)))

\* The tool of check k exited non-zero: except dagger.ExecError.
CheckExits(k, e) ==
    /\ quality.pc = "gather"
    /\ CheckEnds(k, Returned(CheckExited(quality.checks[k].fn, e)))

\* The SDK call of check k raised another exception: the coroutine raises it.
CheckRaises(k, e) ==
    /\ quality.pc = "gather"
    /\ CheckEnds(k, Raised(e))

\* All the checks have ended: gather returns check_results, the results dict
\* is filled and code_quality returns the report.
GatherReturns ==
    /\ quality.pc = "gather"
    /\ \A k \in 1..Len(quality.checks) : quality.checks[k].state = "done"
    /\ LET results == QualityResults(CheckNames, quality.checks)
       IN  quality' = [quality EXCEPT
                          !.pc = "done", !.results = results,
                          !.outcome = Returned(QualityReport(results))]
    /\ UNCHANGED << demo_app, tests, build >>

NextQuality ==
    \/ CodeQuality
    \/ \E k \in 1..Len(CheckFunctions), out \in CheckOutputs : CheckReturns(k, out)
    \/ \E k \in 1..Len(CheckFunctions), e \in CheckExecErrors : CheckExits(k, e)
    \/ \E k \in 1..Len(CheckFunctions), e \in CheckErrors : CheckRaises(k, e)
    \/ GatherReturns

SpecQuality == Init /\ [][NextQuality]_vars

\* ---------------------------------------------------------------------
\* Builder.build_artifacts (src/src/dagger_mcp_server/building.py).  The
\* containers and directories are only described until the container is
\* awaited (line 75): that is the call the engine runs the build in.
Environments == {"production", "staging", "development"}
BuildErrors ==
    { [type |-> "ExecError", msg |-> "exit code 1"],
      [type |-> "QueryError", msg |-> "engine"] }

BuildArtifacts(environment) ==
    /\ build.pc = "idle"
    /\ build' = [IdleBuild EXCEPT !.pc = "sync", !.environment = environment]
    /\ UNCHANGED << demo_app, tests, quality >>

\* The awaited container is built: build_artifacts returns its BuildResults.
BuildSyncReturns ==
    /\ build.pc = "sync"
    /\ build' = [build EXCEPT
                    !.pc = "done",
                    !.outcome = Returned(
                        [success |-> TRUE, production_image_built |-> TRUE,
                         packages_generated |-> TRUE, manifests_created |-> TRUE,
                         documentation_generated |-> TRUE,
                         environment |-> build.environment,
                         artifact_count |-> 4, build_duration |-> 180])]
    /\ UNCHANGED << demo_app, tests, quality >>

\* The engine raised e: build_artifacts has no handler.
BuildSyncRaises(e) ==
    /\ build.pc = "sync"
    /\ build' = [build EXCEPT !.pc = "done", !.outcome = Raised(e)]
    /\ UNCHANGED << demo_app, tests, quality >>

NextBuild ==
    \/ \E environment \in Environments : BuildArtifacts(environment)
    \/ BuildSyncReturns
    \/ \E e \in BuildErrors : BuildSyncRaises(e)

\* The entry points run_tests and build_artifacts, called once each.
NextStages == NextTests \/ NextBuild

SpecStages == Init /\ [][NextStages]_vars

\* ---------------------------------------------------------------------
\* Properties.  EvCount counts the events of one kind in a query's trace.
EvCount(tr, kind) == Cardinality({ j \in 1..Len(tr) : tr[j].ev = kind })

\* A query called by the user (not by batch_query) that has ended.
DirectQueryEnded(fr) == fr.op = "query" /\ fr.pc = "idle"

\* C1: a query on a connected client calls the runner at most max_retries
\* times and stops at the first attempt that succeeds: when k attempts failed
\* and the next one succeeded, the runner was called k+1 times, nothing
\* follows the success, and the query returned that attempt's response.
C1_RetryStopsAtFirstSuccess ==
    \A t \in Tasks :
        LET fr == task[t]
            tr == fr.trace
        IN  /\ EvCount(tr, "run") <= fr.max_retries
            /\ \A j \in 1..Len(tr) :
                   tr[j].ev = "ok" =>
                       /\ j = Len(tr)
                       /\ fr.pc = "idle"
                       /\ EvCount(tr, "run") = EvCount(tr, "fail") + 1
                       /\ EvCount(tr, "fail") < fr.max_retries
                       /\ fr.outcome = Returned(tr[j].response)

\* C1 witness: a query that failed once and then succeeded has returned.
C1_Witness ==
    LET fr == task[Main]
    IN  /\ DirectQueryEnded(fr)
        /\ fr.conn0
        /\ fr.outcome.kind = "return"
        /\ EvCount(fr.trace, "fail") = 1
        /\ EvCount(fr.trace, "run") = 2
        /\ fr.trace[Len(fr.trace)].ev = "ok"

C3_QueryNotConnected ==
    \A t \in Tasks :
        LET fr == task[t]
        IN  (fr.op = "query" /\ ~fr.conn0)
            => /\ fr.pc = "idle"
               /\ fr.outcome.kind = "raise"
               /\ fr.outcome.exc.type = "RuntimeError"
               /\ fr.trace = <<>>
               /\ conversation_history = fr.hist0
               /\ last_response_id = fr.last0

\* C3 witness: a query was called after the connection had been cleaned up.
C3_Witness ==
    LET fr == task[Main]
    IN  /\ fr.op = "query"
        /\ ~fr.conn0
        /\ fr.max_retries >= 1
        /\ succ_log # <<>>
\* The id of the last record of a log, None for the empty log.
LastIdOf(log) == IF log = <<>> THEN None ELSE log[Len(log)].response_id

\* C4: on a connected client the history is the log of the queries that
\* succeeded since the last connect or clear_conversation_context, record for
\* record and in the order they succeeded, and last_response_id is the id of
\* its last record; while a query is still trying, and when it has raised,
\* the history is the one it was called with (failed attempts append nothing).
C4_HistoryIsSuccessLog ==
    /\ connected =>
           /\ conversation_history = succ_log
           /\ Len(conversation_history) = Len(succ_log)
           /\ succ_log # <<>> => last_response_id = LastIdOf(succ_log)
    /\ \A t \in Tasks :
           LET fr == task[t]
           IN  /\ (fr.op = "query" /\ (fr.pc \in {"run", "sleep"}
                                       \/ fr.outcome.kind = "raise"))
                   => conversation_history = fr.hist0
               /\ (DirectQueryEnded(fr) /\ fr.outcome.kind = "return"
                   /\ fr.trace # <<>>)
                   => /\ conversation_history =
                             Append(fr.hist0,
                                    [question |-> fr.question,
                                     response |-> fr.outcome.value,
                                     response_id |->
                                         fr.trace[Len(fr.trace)].response_id])
                      /\ last_response_id = fr.trace[Len(fr.trace)].response_id

\* C4 witness: two queries have succeeded, the second one after a failed
\* attempt, and the history holds two different records.
C4_Witness ==
    LET fr == task[Main]
    IN  /\ connected
        /\ Len(succ_log) = 2
        /\ succ_log[1] # succ_log[2]
        /\ DirectQueryEnded(fr)
        /\ fr.outcome.kind = "return"
        /\ EvCount(fr.trace, "fail") >= 1

\* The log of successes as it was when the query in fr was called.
LogAtCall(fr) ==
    IF fr.trace # <<>> /\ fr.trace[Len(fr.trace)].ev = "ok"
    THEN SubSeq(succ_log, 1, Len(succ_log) - 1)
    ELSE succ_log

\* C5: in non-overlapping queries on a connected client, every call of the
\* runner made with use_conversation_context=True is given the response id
\* of the most recent query that succeeded since the last connect or
\* clear_conversation_context (none when there is no such query), every call
\* made with use_conversation_context=False is given none, and a query that
\* succeeds with use_conversation_context=False is appended to the history
\* and its id becomes last_response_id all the same.
C5_PreviousResponseId ==
    \A t \in Tasks :
        LET fr == task[t]
            tr == fr.trace
        IN  /\ \A j \in 1..Len(tr) :
                   tr[j].ev = "run" =>
                       tr[j].prev = IF fr.ctx THEN LastIdOf(LogAtCall(fr)) ELSE None
            /\ (tr # <<>> /\ tr[Len(tr)].ev = "ok" /\ ~fr.ctx)
                   => /\ conversation_history # <<>>
                      /\ conversation_history[Len(conversation_history)] =
                             [question |-> fr.question,
                              response |-> tr[Len(tr)].response,
                              response_id |-> tr[Len(tr)].response_id]
                      /\ last_response_id = tr[Len(tr)].response_id

\* C5 witness: after a query without context succeeded, a query with context
\* called the runner twice, both times with the id of that success, and
\* succeeded with another id.
C5_Witness ==
    LET fr == task[Main]
    IN  /\ Len(succ_log) = 2
        /\ fr.ctx
        /\ DirectQueryEnded(fr)
        /\ EvCount(fr.trace, "run") = 2
        /\ fr.trace[1].prev = succ_log[1].response_id
        /\ fr.trace[4].prev = succ_log[1].response_id
        /\ succ_log[1].response_id # succ_log[2].response_id
        /\ last_response_id = succ_log[2].response_id
\* C6: when a connect() block that established its connection has exited,
\* normally or because its body raised, cleanup() of its server has been
\* called exactly once, the client is reset (_connected False, _server and
\* _agent None, empty history, last_response_id None), and the exception of
\* the body, if any, is the one that leaves connect().
C6_BlockExitCleansUp ==
    \A t \in Tasks :
        LET fr == task[t]
        IN  (fr.conn.kind = "exited" /\ fr.conn.srv # NoServer)
            => /\ srv_cleanups[fr.conn.srv] = 1
               /\ connected = FALSE
               /\ server = NoServer
               /\ agent = NoServer
               /\ conversation_history = <<>>
               /\ last_response_id = None
               /\ fr.conn.exc = fr.body_exc

\* C6 witness: a block that established server 1 has exited with the
\* exception of its body in flight, after a query had filled the history.
C6_Witness ==
    LET fr == task[Main]
    IN  /\ fr.conn.kind = "exited"
        /\ fr.conn.srv = 1
        /\ fr.conn.exc \in BodyErrors
        /\ fr.blocks = <<>>
        /\ succ_log # <<>>

\* C7: when establishing the connection failed inside connect(), the
\* exception that was raised is the one that leaves connect(), no body has
\* been entered, and _connected is False.
C7_EstablishFailurePropagates ==
    \A t \in Tasks :
        LET fr == task[t]
        IN  (fr.op = "connect" /\ fr.body_exc # NoExc /\ fr.pc = "idle")
            => /\ fr.conn.kind = "failed"
               /\ fr.conn.exc = fr.body_exc
               /\ Len(fr.blocks) = fr.depth0
               /\ connected = FALSE

\* C7 witness: server.connect() raised and connect() has ended with that
\* exception.
C7_Witness ==
    LET fr == task[Main]
    IN  /\ fr.conn.kind = "failed"
        /\ fr.conn.exc \in ConnectErrors
        /\ 1 \notin srv_connected

\* The text batch_query stores for a finished question.
ExpectedText(p) == IF p.kind = "return" THEN p.value ELSE "Error: " \o p.exc.msg

\* The last entry of processed for question q.
LastProcessed(ps, q) ==
    ps[CHOOSE k \in 1..Len(ps) :
           /\ ps[k].question = q
           /\ \A m \in (k + 1)..Len(ps) : ps[m].question # q]

\* C8: batch_query never raises; it takes the questions one at a time in list
\* order, a question whose query failed does not stop the ones after it, and
\* it returns a dict with one entry per distinct question, holding the
\* response of the question's query or the text 'Error: <exception>'.
C8_BatchQueryNeverRaises ==
    \A t \in Tasks :
        LET fr == task[t]
            ps == fr.processed
        IN  fr.op = "batch"
            => /\ fr.outcome.kind # "raise"
               /\ Len(ps) <= Len(fr.questions)
               /\ \A k \in 1..Len(ps) : ps[k].question = fr.questions[k]
               /\ fr.pc # "idle" => /\ fr.i = Len(ps) + 1
                                    /\ fr.question = fr.questions[fr.i]
               /\ fr.pc = "idle"
                  => /\ fr.outcome = Returned("results")
                     /\ Len(ps) = Len(fr.questions)
                     /\ DOMAIN fr.results =
                            { fr.questions[k] : k \in 1..Len(fr.questions) }
                     /\ \A q \in DOMAIN fr.results :
                            fr.results[q] = ExpectedText(LastProcessed(ps, q))

\* C8 witness: a batch of two different questions has returned; the first
\* question failed on all its attempts and the second one succeeded.
C8_Witness ==
    LET fr == task[Main]
    IN  /\ fr.op = "batch"
        /\ fr.pc = "idle"
        /\ Len(fr.questions) = 2
        /\ fr.questions[1] # fr.questions[2]
        /\ fr.processed[1].kind = "raise"
        /\ fr.processed[1].exc \in RunnerErrors
        /\ fr.processed[2].kind = "return"
        /\ fr.results[fr.questions[1]] = "Error: m1"
        /\ fr.results[fr.questions[2]] = "r2"
\* A step in which caller t calls clear_conversation_context.
ClearStep(t) ==
    /\ task[t].pc = "idle"
    /\ task'[t] = Fresh(task[t], "clear")
    /\ \A u \in Tasks \ {t} : task'[u] = task[u]

\* A step in which caller t, whose last call was clear_conversation_context,
\* calls query on a connected client.
QueryAfterClearStep(t) ==
    /\ task[t].op = "clear"
    /\ task'[t].op = "query"
    /\ connected
    /\ agent # NoServer

C10_FixedDelayBetweenAttempts ==
    \A t \in Tasks :
        LET fr == task[t]
            tr == fr.trace
            RunsUpTo(j) == Cardinality({ k \in 1..j : tr[k].ev = "run" })
        IN  \A j \in 1..Len(tr) :
                /\ tr[j].ev = "fail" =>
                       IF RunsUpTo(j) < fr.max_retries
                       THEN /\ j < Len(tr)
                            /\ tr[j + 1].ev = "sleep"
                            /\ j + 2 <= Len(tr) => tr[j + 2].ev = "run"
                            /\ j + 1 = Len(tr) => fr.pc = "sleep"
                       ELSE j = Len(tr) /\ fr.pc = "idle"
                /\ tr[j].ev = "sleep" =>
                       /\ tr[j].secs = 1
                       /\ j > 1 /\ tr[j - 1].ev = "fail"
                /\ tr[j].ev = "ok" => j = Len(tr)
                /\ tr[j].ev = "run" =>
                       /\ j = 1 \/ tr[j - 1].ev = "sleep"
                       /\ j = Len(tr) => fr.pc = "run"

\* C10 witness: a query with two attempts has failed twice: one delay, after
\* the first failure, and none after the second.
C10_Witness ==
    LET fr == task[Main]
    IN  /\ DirectQueryEnded(fr)
        /\ fr.max_retries = 2
        /\ Len(fr.trace) = 5
        /\ fr.trace[3].ev = "sleep"
        /\ fr.trace[5].ev = "fail"

\* C11: whenever a query ends in an error, because the client was not
\* connected or because all its attempts failed, the exception raised to the
\* caller is a RuntimeError.
C11_QueryErrorIsRuntimeError ==
    \A t \in Tasks :
        LET fr == task[t]
        IN  (DirectQueryEnded(fr) /\ fr.outcome.kind = "raise")
            => fr.outcome.exc.type = "RuntimeError"

\* _run_parallel_tests has returned to run_tests.
ParallelTestsReturned == tests.parallel /\ tests.pc \in {"export", "done"}

\* The suite of the given type among the suites started.
SuiteOf(test_type) ==
    tests.suites[CHOOSE k \in 1..Len(tests.suites) :
                     tests.suites[k].test_type = test_type]

\* The suite's SDK call raised.
SuiteRaised(su) == su.state = "done" /\ "error" \in DOMAIN su.outcome.value

\* C12: _run_parallel_tests starts exactly the three suite tasks unit,
\* integration and performance before it awaits any of them, awaits all
\* three, and returns the three *_tests_passed keys with success their
\* conjunction; a suite whose execution raised is recorded as False and the
\* other two are still awaited and recorded.
C12_ParallelTests ==
    (tests.parallel /\ tests.pc # "idle")
    => /\ Len(tests.suites) = 3
       /\ \A k \in 1..3 :
              /\ tests.suites[k].test_type = TestSuites[k].test_type
              /\ tests.suites[k].module = TestSuites[k].module
              /\ tests.log[k].ev = "start"
       /\ \A k \in 4..Len(tests.log) : tests.log[k].ev = "record"
       /\ ParallelTestsReturned
          => /\ Len(tests.log) = 6
             /\ { tests.log[k].test_type : k \in 4..6 }
                    = {"unit", "integration", "performance"}
             /\ \A tt \in {"unit", "integration", "performance"} :
                    /\ PassedKey(tt) \in DOMAIN tests.results
                    /\ tests.results[PassedKey(tt)]
                           = (~SuiteRaised(SuiteOf(tt))
                              /\ SuiteOf(tt).outcome.value.success)
             /\ tests.results["success"]
                    = (/\ tests.results["unit_tests_passed"]
                       /\ tests.results["integration_tests_passed"]
                       /\ tests.results["performance_tests_passed"])

\* C12 witness: the unit suite raised, the other two passed and were
\* recorded, and the run is not a success.
C12_Witness ==
    /\ ParallelTestsReturned
    /\ SuiteRaised(SuiteOf("unit"))
    /\ tests.results["integration_tests_passed"]
    /\ tests.results["performance_tests_passed"]
    /\ ~tests.results["unit_tests_passed"]
    /\ ~tests.results["success"]

\* Whether the suite of module TestSuites[k].module ran and passed.
ModulePassed(k) ==
    \E j \in 1..Len(tests.suites) :
        /\ tests.suites[j].module = TestSuites[k].module
        /\ tests.suites[j].state = "done"
        /\ tests.suites[j].outcome.value.success

\* run_tests has ended and _export_test_artifacts did not raise.
TestsEnded == tests.pc = "done" /\ tests.outcome.exc \notin ExecErrors

\* C13: with no test_filter, run_tests returns a TestResults in both modes,
\* parallel or not, and its flags are the same function of the outcomes of
\* the three suites: each *_tests_passed is whether its suite passed and
\* success is their conjunction (only test_duration depends on the mode).
C13_ModesAgree ==
    (TestsEnded /\ tests.test_filter = <<>>)
    => /\ tests.outcome.kind = "return"
       /\ LET v == tests.outcome.value
          IN  /\ v.unit_tests_passed = ModulePassed(1)
              /\ v.integration_tests_passed = ModulePassed(2)
              /\ v.performance_tests_passed = ModulePassed(3)
              /\ v.success = (ModulePassed(1) /\ ModulePassed(2)
                                 /\ ModulePassed(3))

\* C14: when test_filter is given, run_tests, parallel or not, executes only
\* the suites whose module name contains the filter.
C14_FilterSelectsSuites ==
    tests.test_filter # <<>>
    => \A k \in 1..Len(tests.suites) :
           Contains(tests.test_filter, tests.suites[k].module)

\* C15: run_tests returns success=True only when the coverage_percentage it
\* reports is at least coverage_threshold and the branch_coverage_percentage
\* it reports is at least branch_coverage_threshold.
C15_SuccessMeetsThresholds ==
    (tests.pc = "done" /\ tests.outcome.kind = "return"
     /\ tests.outcome.value.success)
    => /\ tests.outcome.value.coverage_percentage >= tests.coverage_threshold
       /\ tests.outcome.value.branch_coverage_percentage
              >= tests.branch_coverage_threshold

\* The coroutine _run_<name> among the coroutines gathered.
CheckOf(name) ==
    quality.checks[CHOOSE k \in 1..Len(quality.checks) :
                       quality.checks[k].fn = name]

SevenChecks == {"flake8", "black", "mypy", "isort", "pylint", "bandit", "safety"}

\* C16: _run_quality_checks runs the seven checks concurrently and returns
\* exactly the seven entries flake8, black, mypy, isort, pylint, bandit and
\* safety, each holding the result of its own check whatever the order in
\* which the checks ended; a check that raised is recorded with status
\* 'error', the exception text as output and exit_code 1, and the entries of
\* the other six are their own results.
C16_QualityChecksKeyed ==
    /\ quality.pc # "idle"
       => { quality.checks[k].fn : k \in 1..Len(quality.checks) } = SevenChecks
    /\ quality.pc = "done"
       => /\ DOMAIN quality.results = SevenChecks
          /\ \A name \in SevenChecks :
                 LET o == CheckOf(name).outcome
                 IN  quality.results[name]
                         = IF o.kind = "raise"
                           THEN [status |-> "error", output |-> << o.exc.msg >>,
                                 exit_code |-> 1]
                           ELSE o.value

\* C16 witness: the checks ended out of list order, flake8 raised, black
\* passed and mypy exited non-zero.
C16_Witness ==
    /\ quality.pc = "done"
    /\ quality.out_of_order
    /\ CheckOf("flake8").outcome.kind = "raise"
    /\ quality.results["black"].status = "pass"
    /\ quality.results["mypy"].status = "fail"
    /\ quality.results["flake8"].status = "error"

\* Whether some check has one of the given statuses.
SomeStatus(statuses) ==
    \E name \in DOMAIN quality.results :
        quality.results[name].status \in statuses

\* C17: the report's overall status is FAILED exactly when some check is
\* 'fail' or 'error', PASSED WITH WARNINGS exactly when none is and some
\* check is 'warning', and PASSED otherwise; the four summary counts add up
\* to the number of checks; a non-zero exit of pylint is recorded as
\* 'warning' and does not by itself make the status FAILED.
C17_OverallStatus ==
    quality.pc = "done"
    => LET report == quality.outcome.value
           pylint == CheckOf("pylint").outcome
       IN  /\ report.overall = "FAILED" <=> SomeStatus({"fail", "error"})
           /\ report.overall = "PASSED WITH WARNINGS"
                  <=> (~SomeStatus({"fail", "error"}) /\ SomeStatus({"warning"}))
           /\ report.overall = "PASSED"
                  <=> ~SomeStatus({"fail", "error", "warning"})
           /\ report.passed + report.failed + report.warnings + report.errors
                  = report.total_checks
           /\ report.total_checks = Cardinality(SevenChecks)
           /\ (pylint.kind = "return" /\ pylint.value.exit_code # 0)
                  => /\ quality.results["pylint"].status = "warning"
                     /\ (\A name \in SevenChecks \ {"pylint"} :
                             quality.results[name].status = "pass")
                            => report.overall = "PASSED WITH WARNINGS"

\* C17 witness: pylint exited non-zero, the other six checks passed, and the
\* report says PASSED WITH WARNINGS.
C17_Witness ==
    /\ quality.pc = "done"
    /\ CheckOf("pylint").outcome.kind = "return"
    /\ CheckOf("pylint").outcome.value.exit_code = 2
    /\ \A name \in SevenChecks \ {"pylint"} :
           quality.results[name].status = "pass"
    /\ quality.outcome.value.overall = "PASSED WITH WARNINGS"
    /\ quality.outcome.value.warnings = 1

\* C18: in each pipeline entry point (code_quality, run_tests,
\* build_artifacts) an exception raised by an SDK call during the stage is
\* caught: the call returns its result, with a status flag that says so, and
\* does not raise to the caller.
C18_StageErrorsAreCaught ==
    /\ quality.pc = "done" => quality.outcome.kind = "return"
    /\ tests.pc = "done" => tests.outcome.exc.type # "ExecError"
    /\ build.pc = "done" => build.outcome.kind = "return"

\* A step in which caller t calls get_conversation_history.
GetHistoryStep(t) ==
    /\ task[t].pc = "idle"
    /\ task'[t].op = "get_history"
    /\ task'[t].pc = "idle"
    /\ task'[t].returned.items = task'[t].hist0

\* A step in which caller t changes the list it got.
ChangeListStep(t) ==
    /\ task[t].op \in {"get_history", "change"}
    /\ task'[t].op = "change"
    /\ task'[t].returned.items # task[t].returned.items

\* C19: get_conversation_history returns the items of the history in a list
\* of its own and changes no client state; adding, removing or replacing
\* elements of the returned list changes neither the client's history (what
\* a later get_conversation_history returns) nor any other client state.
C19_HistoryIsCopied ==
    [][ \A t \in Tasks :
          /\ GetHistoryStep(t)
             => /\ task'[t].returned.items = conversation_history
                /\ UNCHANGED client
          /\ ChangeListStep(t)
             => /\ ListCopy(conversation_history').items
                       = ListCopy(conversation_history).items
                /\ conversation_history' = task[t].hist0
                /\ UNCHANGED client
      ]_vars

\* C19 witness: the caller has changed the list it got from a history of one
\* record, and the client's history still is that record.
C19_Witness ==
    LET fr == task[Main]
    IN  /\ fr.op = "change"
        /\ Len(conversation_history) = 1
        /\ fr.returned.items # conversation_history
        /\ conversation_history = fr.hist0

\* C20: in every reachable state last_response_id is None exactly when the
\* conversation history is empty, and otherwise it is the response_id of the
\* last record of the history.
C20_LastIdMatchesHistory ==
    /\ last_response_id = None <=> conversation_history = <<>>
    /\ conversation_history # <<>>
       => last_response_id
              = conversation_history[Len(conversation_history)].response_id

\* C20 witness: two queries succeeded with different response ids, and
\* last_response_id is the id of the second.
C20_Witness ==
    /\ Len(conversation_history) = 2
    /\ conversation_history[1].response_id # conversation_history[2].response_id
    /\ last_response_id = conversation_history[2].response_id
    /\ connected

\* C21: in every reachable state, whatever the interleaving of connect and
\* cleanup, clear_conversation_context and query calls on the client: if the
\* client is not connected, its history is empty, last_response_id is None
\* and _agent is None.
C21_DisconnectedIsEmpty ==
    ~connected
    => /\ conversation_history = <<>>
       /\ last_response_id = None
       /\ agent = NoServer

\* C22: every call of the runner by query, first attempt or retry, is made
\* while the client is connected.
C22_RunnerOnlyWhenConnected ==
    \A t \in Tasks :
        \A j \in 1..Len(task[t].trace) :
            task[t].trace[j].ev = "run"
            => /\ task[t].trace[j].conn
               /\ task[t].trace[j].agent # NoServer

\* The record of the successful query that ended in frame fr.
RecordOf(fr) ==
    [question |-> fr.question, response |-> fr.outcome.value,
     response_id |-> fr.trace[Len(fr.trace)].response_id]

\* C23: when query calls overlap on a connected client, under every
\* interleaving each call that succeeded has put exactly one record in the
\* history (none is lost, none is there twice), and when all the calls have
\* ended last_response_id is the response_id of the last history record.
C23_OverlappingQueries ==
    /\ Len(conversation_history) = Len(succ_log)
    /\ \A k \in 1..Len(succ_log) : conversation_history[k] = succ_log[k]
    /\ \A t \in Tasks :
           (DirectQueryEnded(task[t]) /\ task[t].outcome.kind = "return")
           => \E k \in 1..Len(conversation_history) :
                  /\ k > Len(task[t].hist0)
                  /\ conversation_history[k] = RecordOf(task[t])
    /\ ((\A t \in Tasks : task[t].pc = "idle") /\ conversation_history # <<>>)
       => last_response_id
              = conversation_history[Len(conversation_history)].response_id

\* C23 witness: two queries that were both called on the empty history have
\* both succeeded, and the history holds their two records.
C23_Witness ==
    /\ \A t \in Tasks :
           /\ DirectQueryEnded(task[t])
           /\ task[t].outcome.kind = "return"
           /\ task[t].conn0
           /\ task[t].hist0 = <<>>
    /\ Len(conversation_history) = NTasks
    /\ conversation_history[1].question = "q2"

\* C24: when connect() has exited or raised, the server it created, if that
\* server's connect() succeeded, has had cleanup() called on it; this
\* includes a connect() that raised because the agent could not be created
\* after the server had connected.
C24_ConnectedServerIsCleanedUp ==
    \A t \in Tasks :
        LET fr == task[t]
        IN  (fr.conn.kind \in {"exited", "failed"} /\ fr.conn.srv # NoServer
             /\ fr.conn.srv \in srv_connected)
            => srv_cleanups[fr.conn.srv] >= 1

\* C25: after _establish_connection has failed the client is as it was
\* constructed: _connected is False, _server is None and _agent is None.
C25_FailedEstablishResets ==
    \A t \in Tasks :
        (task[t].conn.kind = "failed" /\ task[t].pc = "idle")
        => /\ connected = FALSE
           /\ server = NoServer
           /\ agent = NoServer

\* A step that enters `async with client.connect():` as task t: a body
\* begins, or server.connect() is awaited.
ConnectStep(t) ==
    /\ task[t].pc = "idle"
    /\ \/ Len(task'[t].blocks) = Len(task[t].blocks) + 1
       \/ task'[t].pc = "connecting"

\* C26: entering connect() on a client that is already connected creates no
\* server and no agent, does not await server.connect(), and leaves _server,
\* _agent, _connected, the history and last_response_id as they were; the
\* body is entered at once.
C26_ConnectWhenConnected ==
    [][\A t \in Tasks :
          (connected /\ ConnectStep(t))
          => /\ UNCHANGED << server, agent, connected, conversation_history,
                             last_response_id >>
             /\ task'[t].pc = "idle"
             /\ task'[t].srv = NoServer
             /\ task'[t].conn.kind = "entered"
             /\ task'[t].conn.srv = NoServer
             /\ srv_connected' \subseteq srv_connected
             /\ \A s \in 1..MaxServers : srv_cleanups'[s] <= srv_cleanups[s]]_vars

\* C26 witness: a second block was entered on the connected client, inside
\* the block that established server 1, after a successful query.
C26_Witness ==
    LET fr == task[Main]
    IN  /\ connected
        /\ Len(fr.blocks) = 2
        /\ fr.blocks[1].srv = 1
        /\ fr.blocks[2].srv = NoServer
        /\ fr.conn.kind = "entered"
        /\ server = 1
        /\ conversation_history # <<>>

\* Whether the list h is kept in g: g begins with the records of h.
KeptIn(h, g) == Len(h) <= Len(g) /\ SubSeq(g, 1, Len(h)) = h

\* C27: as long as a caller is inside a connect() block, also after a block
\* nested in it was entered and left, the client is connected, and no step
\* other than clear_conversation_context removes a record of the history.
C27_OuterBlockStaysConnected ==
    [][\A t \in Tasks :
          task'[t].blocks # <<>>
          => /\ connected'
             /\ task[t].blocks # <<>>
                => \/ ClearStep(t)
                   \/ KeptIn(conversation_history, conversation_history')]_vars
====
